---- MODULE Spec2Model ----
(***************************************************************************)
(* A model of evexi: a mutex-guarded byte buffer (Evexi) that accumulates  *)
(* written data and hands copies of it to an export callback, on demand    *)
(* (Export), when a fixed capacity would be exceeded (Write), or from a    *)
(* cancellable ticker goroutine (IntervalExport).                          *)
(*                                                                         *)
(* Go slices are modelled as they are: a slice is a record                 *)
(* [arr, len, cap] naming a backing array of the heap, so truncating in    *)
(* place (buffer[:0]), allocating (make) and copying (bytes) differ.       *)
(* Goroutines are threads with a program counter; the Go statements        *)
(* executed between two synchronisation points form one step.              *)
(***************************************************************************)
EXTENDS Integers, Sequences, FiniteSets, TLC

\* ---------------------------------------------------------------- bounds
\* Number of goroutines of the caller that use the Evexi.
NumProcs == 2
\* Number of IntervalExport goroutines started in a behaviour of Spec.
MaxTasks == 1
\* Number of IntervalExport goroutines started in a behaviour of TwoTaskSpec.
NumTasks == 2
\* Number of calls (Write, Export, Bytes, Reset, IntervalExport, cancel) made.
MaxCalls == 3
\* Number of times the ticker of one IntervalExport goroutine fires.
MaxTicks == 2
\* Longest data passed to one Write.
MaxDataLen == 4
\* The bufferMaxSize of the Evexi built in fixed-capacity mode.
FixedCap == 3

Procs == 1..NumProcs
Tasks == (NumProcs + 1)..(NumProcs + NumTasks)
Threads == Procs \cup Tasks

\* The values of exportInterval tried: negative, zero, positive.
Intervals == {-1, 0, 1}

\* ------------------------------------------------------------ sequences
RECURSIVE Zeros(_)
Zeros(n) == IF n <= 0 THEN <<>> ELSE <<0>> \o Zeros(n - 1)

Range(s) == {s[i] : i \in 1..Len(s)}

\* The data of the k-th call when it is a Write of n bytes: every byte
\* written is distinct from every other and from the zero byte.
Payload(k, n) == [i \in 1..n |-> 10 * k + i]

\* The bytes of the k-th call's data.
PayloadBytes(k) == {10 * k + i : i \in 1..MaxDataLen}

\* ---------------------------------------------------------------- slices
NilSlice == [arr |-> 0, len |-> 0, cap |-> 0]

\* The bytes slice s holds, read from heap hp.
Contents(s, hp) == IF s.len = 0 THEN <<>> ELSE SubSeq(hp[s.arr], 1, s.len)

\* make([]byte, l, c): a zeroed array of c bytes, and a slice of length l of it.
Make(l, c, hp) ==
    [slice |-> [arr |-> Len(hp) + 1, len |-> l, cap |-> c],
     heap  |-> Append(hp, Zeros(c))]

\* The capacity append() gives a []byte that must grow from capacity old to
\* hold need bytes (the Go runtime's growslice for small slices: the needed
\* length when it is more than double, double the capacity otherwise).
GrowCap(old, need) == IF need > 2 * old THEN need ELSE 2 * old

\* append(s, d...): in place when the capacity allows, in a new array otherwise.
AppendSlice(s, d, hp) ==
    LET n == s.len + Len(d) IN
    IF n <= s.cap
    THEN [slice |-> [s EXCEPT !.len = n],
          heap  |-> IF Len(d) = 0 THEN hp
                    ELSE [hp EXCEPT ![s.arr] =
                            [i \in 1..s.cap |->
                               IF i > s.len /\ i <= n THEN d[i - s.len] ELSE @[i]]]]
    ELSE LET c == GrowCap(s.cap, n) IN
         [slice |-> [arr |-> Len(hp) + 1, len |-> n, cap |-> c],
          heap  |-> Append(hp, Contents(s, hp) \o d \o Zeros(c - n))]

\* ------------------------------------------------------------- the state
VARIABLES
    export,         \* New's parameter export and Evexi.export: "nil" or "func"
    e,              \* what New returned: "nil" or "Evexi" ("unset" before it returns)
    err,            \* the error New returned ("unset" before it returns)
    bufferMaxSize,  \* New's parameter bufferMaxSize and Evexi.bufferMaxSize (0: not set)
    buffer,         \* Evexi.buffer, a slice
    heap,           \* the backing arrays allocated so far
    totalBufSize,   \* Evexi.totalBufSize
    bufCount,       \* Evexi.bufCount
    mux,            \* Evexi.mux: 0 when unlocked, else the thread holding it
    pc,             \* where each thread is
    wdata,          \* Write's parameter data, per caller
    doReset,        \* Export's parameter reset, per caller
    exportInterval, \* IntervalExport's parameter exportInterval, per caller
    data,           \* the local data (the copy made by bytes()), per thread
    ret,            \* what each caller's last call returned
    cancelled,      \* per task: its context is cancelled
    tickPending,    \* per task: its ticker's channel t.C holds a tick
    ticks,          \* per task: number of ticks its ticker has put in t.C
    exports,        \* every go e.export(data) executed, in order
    exporters,      \* number of export goroutines that have not returned
    \* history, read by the properties only
    calls,          \* number of calls made
    cid,            \* per thread: the number of its current call or tick
    pre,            \* per thread: the buffer's bytes when it took the lock
    quiet,          \* per task: no Write since the last tick's reset when its tick copied the buffer
    lockOrder,      \* the operations that took the lock, in the order they took it
    wroteSinceTick, \* a Write appended since the last tick's reset (or no tick yet)
    written,        \* the data of all Writes, in the order they were appended
    flushed,        \* the copies taken by resetting flushes, in lock order
    lastMut,        \* the last change of the buffer: "none", "append", "reset"
    resets,         \* every e.reset() executed, in order
    discarded       \* the bytes Reset() calls removed from the buffer

\* The fields of the Evexi.
sink == <<bufferMaxSize, buffer, heap, totalBufSize, bufCount>>
\* The call of New: its parameter export and what it returned.
ctor == <<export, e, err>>
\* The parameters of the calls.
args == <<ctor, wdata, doReset, exportInterval>>
\* The context and ticker of the tasks.
tick == <<cancelled, tickPending, ticks>>
\* The history of the buffer.
hist == <<written, flushed, lastMut, resets, discarded>>

vars == <<sink, mux, pc, args, data, ret, tick, exports, exporters, calls, cid,
          pre, quiet, lockOrder, wroteSinceTick, hist>>

\* The bytes in the buffer.
BufBytes == Contents(buffer, heap)

NoReturn == [op |-> "none", n |-> 0, err |-> "nil", val |-> NilSlice, handle |-> 0]

\* ------------------------------------------------- the Evexi's functions
\* New with make([]byte, initialBufSize): a buffer of that length.
New_Filled(exp, max) ==
    IF exp = "nil"
    THEN [e |-> "nil", err |-> "ErrExportFuncNotSet"]
    ELSE LET initialBufSize == IF max > 0 THEN max ELSE 0
             m == Make(initialBufSize, initialBufSize, <<>>)
         IN  [e |-> "Evexi", err |-> "nil", export |-> exp,
              buffer |-> m.slice, heap |-> m.heap, bufferMaxSize |-> max,
              totalBufSize |-> 0, bufCount |-> 0]

\* New(export, bufferMaxSize): the error, or the Evexi it returns.
New(exp, max) ==
    IF exp = "nil"
    THEN [e |-> "nil", err |-> "ErrExportFuncNotSet"]
    ELSE LET initialBufSize == IF max > 0 THEN max ELSE 0
             m == Make(0, initialBufSize, <<>>)
         IN  [e |-> "Evexi", err |-> "nil", export |-> exp,
              buffer |-> m.slice, heap |-> m.heap, bufferMaxSize |-> max,
              totalBufSize |-> 0, bufCount |-> 0]

\* bytes returning e.buffer itself (no make, no copy).
bytes_Alias(buf, hp) == [slice |-> buf, heap |-> hp]

\* e.bytes(): a new array of len(e.buffer) bytes with the buffer copied into it.
bytes(buf, hp) ==
    LET m == Make(buf.len, buf.len, hp) IN
    [slice |-> m.slice,
     heap  |-> [m.heap EXCEPT ![m.slice.arr] = Contents(buf, hp)]]

\* reset with the average taken over the earlier resets only (the length of
\* the buffer being reset is added after the comparison).
reset_AvgBefore(buf, hp, total, count, max) ==
    IF max > 0
    THEN IF buf.len >= max
         THEN LET m == Make(0, max, hp) IN
              [buffer |-> m.slice, heap |-> m.heap,
               totalBufSize |-> total, bufCount |-> count]
         ELSE [buffer |-> [buf EXCEPT !.len = 0], heap |-> hp,
               totalBufSize |-> total, bufCount |-> count]
    ELSE LET c == count + 1
             t == total + buf.len
             avgBufSize == IF count = 0 THEN buf.len ELSE total \div count
         IN  IF buf.len <= avgBufSize * 2
             THEN [buffer |-> [buf EXCEPT !.len = 0], heap |-> hp,
                   totalBufSize |-> t, bufCount |-> c]
             ELSE LET m == Make(avgBufSize, avgBufSize, hp) IN
                  [buffer |-> m.slice, heap |-> m.heap,
                   totalBufSize |-> t, bufCount |-> c]

\* reset with < for <= in the comparison with twice the average.
reset_Lt(buf, hp, total, count, max) ==
    IF max > 0
    THEN IF buf.len >= max
         THEN LET m == Make(0, max, hp) IN
              [buffer |-> m.slice, heap |-> m.heap,
               totalBufSize |-> total, bufCount |-> count]
         ELSE [buffer |-> [buf EXCEPT !.len = 0], heap |-> hp,
               totalBufSize |-> total, bufCount |-> count]
    ELSE LET c == count + 1
             t == total + buf.len
             avgBufSize == t \div c
         IN  IF buf.len < avgBufSize * 2
             THEN [buffer |-> [buf EXCEPT !.len = 0], heap |-> hp,
                   totalBufSize |-> t, bufCount |-> c]
             ELSE LET m == Make(avgBufSize, avgBufSize, hp) IN
                  [buffer |-> m.slice, heap |-> m.heap,
                   totalBufSize |-> t, bufCount |-> c]

\* reset with > for >= in the comparison with bufferMaxSize.
reset_FixedGt(buf, hp, total, count, max) ==
    IF max > 0
    THEN IF buf.len > max
         THEN LET m == Make(0, max, hp) IN
              [buffer |-> m.slice, heap |-> m.heap,
               totalBufSize |-> total, bufCount |-> count]
         ELSE [buffer |-> [buf EXCEPT !.len = 0], heap |-> hp,
               totalBufSize |-> total, bufCount |-> count]
    ELSE LET c == count + 1
             t == total + buf.len
             avgBufSize == t \div c
         IN  IF buf.len <= avgBufSize * 2
             THEN [buffer |-> [buf EXCEPT !.len = 0], heap |-> hp,
                   totalBufSize |-> t, bufCount |-> c]
             ELSE LET m == Make(avgBufSize, avgBufSize, hp) IN
                  [buffer |-> m.slice, heap |-> m.heap,
                   totalBufSize |-> t, bufCount |-> c]

\* e.reset(): the buffer, heap and bookkeeping it leaves.
reset(buf, hp, total, count, max) ==
    IF max > 0
    THEN IF buf.len >= max
         THEN LET m == Make(0, max, hp) IN
              [buffer |-> m.slice, heap |-> m.heap,
               totalBufSize |-> total, bufCount |-> count]
         ELSE [buffer |-> [buf EXCEPT !.len = 0], heap |-> hp,
               totalBufSize |-> total, bufCount |-> count]
    ELSE LET c == count + 1
             t == total + buf.len
             avgBufSize == t \div c
         IN  IF buf.len <= avgBufSize * 2
             THEN [buffer |-> [buf EXCEPT !.len = 0], heap |-> hp,
                   totalBufSize |-> t, bufCount |-> c]
             ELSE LET m == Make(avgBufSize, avgBufSize, hp) IN
                  [buffer |-> m.slice, heap |-> m.heap,
                   totalBufSize |-> t, bufCount |-> c]

\* The record of one e.reset() by thread th: the buffer's length and backing
\* array before it, and whether th is a task whose context was already
\* cancelled.
ResetRecord(th) ==
    [len |-> buffer.len, arr |-> buffer.arr, by |-> th,
     late |-> (th \in Tasks /\ cancelled[th])]

\* CopyAndReset with the two statements swapped: e.reset(), then data := e.bytes().
CopyAndReset_ResetFirst(th) ==
    LET r == reset(buffer, heap, totalBufSize, bufCount, bufferMaxSize)
        b == bytes(r.buffer, r.heap)
    IN  /\ data' = [data EXCEPT ![th] = b.slice]
        /\ buffer' = r.buffer
        /\ heap' = b.heap
        /\ totalBufSize' = r.totalBufSize
        /\ bufCount' = r.bufCount
        /\ flushed' = flushed \o Contents(b.slice, b.heap)
        /\ lastMut' = "reset"
        /\ resets' = Append(resets, ResetRecord(th))
        /\ UNCHANGED <<bufferMaxSize, written, discarded>>

\* data := e.bytes() followed by e.reset(), in thread th.
CopyAndReset(th) ==
    LET b == bytes(buffer, heap)
        r == reset(buffer, b.heap, totalBufSize, bufCount, bufferMaxSize)
    IN  /\ data' = [data EXCEPT ![th] = b.slice]
        /\ buffer' = r.buffer
        /\ heap' = r.heap
        /\ totalBufSize' = r.totalBufSize
        /\ bufCount' = r.bufCount
        /\ flushed' = flushed \o Contents(b.slice, b.heap)
        /\ lastMut' = "reset"
        /\ resets' = Append(resets, ResetRecord(th))
        /\ UNCHANGED <<bufferMaxSize, written, discarded>>

\* The record of one go e.export(d) executed by thread th.
Dispatch(th, d, hp, origin, resetting, q) ==
    [data |-> Contents(d, hp), slice |-> d, by |-> th, call |-> cid[th],
     origin |-> origin, reset |-> resetting, locked |-> (mux = th), quiet |-> q]

\* The export goroutines started by the call or tick numbered c.
ExportsOf(c) == {i \in 1..Len(exports) : exports[i].call = c}

\* go e.export(d) in thread th.
Go(th, d, hp, origin, resetting, q) ==
    /\ exports' = Append(exports, Dispatch(th, d, hp, origin, resetting, q))
    /\ exporters' = exporters + 1

\* ---------------------------------------------------------------- Init
Init ==
    /\ \E max \in {0, FixedCap} :
         LET r == New("func", max) IN
         /\ export = r.export
         /\ e = r.e
         /\ err = r.err
         /\ bufferMaxSize = r.bufferMaxSize
         /\ buffer = r.buffer
         /\ heap = r.heap
         /\ totalBufSize = r.totalBufSize
         /\ bufCount = r.bufCount
    /\ mux = 0
    /\ pc = [th \in Threads |-> IF th \in Procs THEN "idle" ELSE "off"]
    /\ wdata = [p \in Procs |-> <<>>]
    /\ doReset = [p \in Procs |-> FALSE]
    /\ exportInterval = [p \in Procs |-> 1]
    /\ data = [th \in Threads |-> NilSlice]
    /\ ret = [p \in Procs |-> NoReturn]
    /\ cancelled = [t \in Tasks |-> FALSE]
    /\ tickPending = [t \in Tasks |-> FALSE]
    /\ ticks = [t \in Tasks |-> 0]
    /\ exports = <<>>
    /\ exporters = 0
    /\ calls = 0
    /\ cid = [th \in Threads |-> 0]
    /\ pre = [th \in Threads |-> <<>>]
    /\ quiet = [t \in Tasks |-> FALSE]
    /\ lockOrder = <<>>
    /\ wroteSinceTick = TRUE
    /\ written = <<>>
    /\ flushed = <<>>
    /\ lastMut = "none"
    /\ resets = <<>>
    /\ discarded = {}

\* ------------------------------------------------------------- the mutex
\* Where a thread waits for e.mux.Lock(), and where it is once it has it.
AfterLock(at) ==
    CASE at = "Write_lock"  -> "Write_check"
      [] at = "Export_lock" -> "Export_body"
      [] at = "Bytes_lock"  -> "Bytes_body"
      [] at = "Reset_lock"  -> "Reset_body"
      [] at = "Tick_lock"   -> "Tick_body"
      [] OTHER              -> at

LockPcs == {"Write_lock", "Export_lock", "Bytes_lock", "Reset_lock", "Tick_lock"}

\* Lock that does not wait for the mutex to be unlocked.
Lock_NoWait(th) ==
    /\ pc[th] \in LockPcs
    /\ mux' = th
    /\ pc' = [pc EXCEPT ![th] = AfterLock(pc[th])]
    /\ pre' = [pre EXCEPT ![th] = BufBytes]
    /\ lockOrder' = Append(lockOrder, pc[th])
    /\ UNCHANGED <<sink, args, data, ret, tick, exports, exporters, calls, cid,
                   quiet, wroteSinceTick, hist>>

\* e.mux.Lock() returns in thread th.
Lock(th) ==
    /\ pc[th] \in LockPcs
    /\ mux = 0
    /\ mux' = th
    /\ pc' = [pc EXCEPT ![th] = AfterLock(pc[th])]
    /\ pre' = [pre EXCEPT ![th] = BufBytes]
    /\ lockOrder' = Append(lockOrder, pc[th])
    /\ UNCHANGED <<sink, args, data, ret, tick, exports, exporters, calls, cid,
                   quiet, wroteSinceTick, hist>>

\* e.mux.Unlock() in thread th, which goes on at `to`.
Unlock(th, to) ==
    /\ mux = th
    /\ mux' = 0
    /\ pc' = [pc EXCEPT ![th] = to]
    /\ UNCHANGED <<sink, args, data, tick, exports, exporters, calls, cid, pre,
                   quiet, lockOrder, wroteSinceTick, hist>>

\* A caller starts a call on the Evexi New returned: it has calls left to make
\* and is in no call.
CanCall(p) == e = "Evexi" /\ pc[p] = "idle" /\ calls < MaxCalls

StartCall(p, at) ==
    /\ CanCall(p)
    /\ calls' = calls + 1
    /\ cid' = [cid EXCEPT ![p] = calls + 1]
    /\ pc' = [pc EXCEPT ![p] = at]
    /\ ret' = [ret EXCEPT ![p] = NoReturn]
    /\ UNCHANGED <<sink, mux, data, tick, exports, exporters, pre, quiet,
                   lockOrder, wroteSinceTick, hist>>

\* ---------------------------------------------------------------- Write
WriteCall(p, n) ==
    /\ StartCall(p, "Write_lock")
    /\ wdata' = [wdata EXCEPT ![p] = Payload(calls + 1, n)]
    /\ UNCHANGED <<ctor, doReset, exportInterval>>

\* WriteCheck with >= for >: a Write that fills the buffer exactly flushes too.
WriteCheck_Ge(p) ==
    /\ pc[p] = "Write_check"
    /\ pc' = [pc EXCEPT ![p] = "Write_append"]
    /\ IF bufferMaxSize > 0 /\ buffer.len + Len(wdata[p]) >= bufferMaxSize
       THEN /\ CopyAndReset(p)
            /\ Go(p, data'[p], heap', "Write", TRUE, FALSE)
       ELSE UNCHANGED <<sink, data, exports, exporters, hist>>
    /\ UNCHANGED <<mux, args, ret, tick, calls, cid, pre, quiet, lockOrder,
                   wroteSinceTick>>

\* WriteCheck that leaves len(data) out of the test.
WriteCheck_LenOnly(p) ==
    /\ pc[p] = "Write_check"
    /\ pc' = [pc EXCEPT ![p] = "Write_append"]
    /\ IF bufferMaxSize > 0 /\ buffer.len > bufferMaxSize
       THEN /\ CopyAndReset(p)
            /\ Go(p, data'[p], heap', "Write", TRUE, FALSE)
       ELSE UNCHANGED <<sink, data, exports, exporters, hist>>
    /\ UNCHANGED <<mux, args, ret, tick, calls, cid, pre, quiet, lockOrder,
                   wroteSinceTick>>

\* The bufferMaxSize check of Write and, when the new data would exceed it,
\* the copy, the reset and the go e.export(data).
WriteCheck(p) ==
    /\ pc[p] = "Write_check"
    /\ pc' = [pc EXCEPT ![p] = "Write_append"]
    /\ IF bufferMaxSize > 0 /\ buffer.len + Len(wdata[p]) > bufferMaxSize
       THEN /\ CopyAndReset(p)
            /\ Go(p, data'[p], heap', "Write", TRUE, FALSE)
       ELSE UNCHANGED <<sink, data, exports, exporters, hist>>
    /\ UNCHANGED <<mux, args, ret, tick, calls, cid, pre, quiet, lockOrder,
                   wroteSinceTick>>

\* WriteAppend when the copy of the flush is assigned to the parameter
\* (data = e.bytes() for data := e.bytes()): after a flush it appends the copy.
WriteAppend_Shadowed(p) ==
    /\ pc[p] = "Write_append"
    /\ pc' = [pc EXCEPT ![p] = "Write_unlock"]
    /\ LET d == IF ExportsOf(cid[p]) # {} THEN Contents(data[p], heap) ELSE wdata[p]
           a == AppendSlice(buffer, d, heap)
       IN  /\ buffer' = a.slice
           /\ heap' = a.heap
           /\ written' = written \o d
    /\ lastMut' = "append"
    /\ wroteSinceTick' = TRUE
    /\ UNCHANGED <<bufferMaxSize, totalBufSize, bufCount, mux, args, data, ret,
                   tick, exports, exporters, calls, cid, pre, quiet, lockOrder,
                   flushed, resets, discarded>>

\* e.buffer = append(e.buffer, data...)
WriteAppend(p) ==
    /\ pc[p] = "Write_append"
    /\ pc' = [pc EXCEPT ![p] = "Write_unlock"]
    /\ LET a == AppendSlice(buffer, wdata[p], heap) IN
       /\ buffer' = a.slice
       /\ heap' = a.heap
    /\ written' = written \o wdata[p]
    /\ lastMut' = "append"
    /\ wroteSinceTick' = TRUE
    /\ UNCHANGED <<bufferMaxSize, totalBufSize, bufCount, mux, args, data, ret,
                   tick, exports, exporters, calls, cid, pre, quiet, lockOrder,
                   flushed, resets, discarded>>

\* return len(data), nil and the deferred e.mux.Unlock()
WriteUnlock(p) ==
    /\ pc[p] = "Write_unlock"
    /\ Unlock(p, "idle")
    /\ ret' = [ret EXCEPT ![p] = [NoReturn EXCEPT !.op = "Write",
                                                  !.n = Len(wdata[p])]]

\* --------------------------------------------------------------- Export
ExportCall(p, r) ==
    /\ StartCall(p, "Export_lock")
    /\ doReset' = [doReset EXCEPT ![p] = r]
    /\ UNCHANGED <<ctor, wdata, exportInterval>>

\* ExportBody without the test of reset: e.reset() whatever the parameter is.
ExportBody_AlwaysReset(p) ==
    /\ pc[p] = "Export_body"
    /\ pc' = [pc EXCEPT ![p] = "Export_unlock"]
    /\ CopyAndReset(p)
    /\ Go(p, data'[p], heap', "Export", doReset[p], FALSE)
    /\ UNCHANGED <<mux, args, ret, tick, calls, cid, pre, quiet, lockOrder,
                   wroteSinceTick>>

\* data := e.bytes(); if reset { e.reset() }; go e.export(data)
ExportBody(p) ==
    /\ pc[p] = "Export_body"
    /\ pc' = [pc EXCEPT ![p] = "Export_unlock"]
    /\ IF doReset[p]
       THEN CopyAndReset(p)
       ELSE LET b == bytes(buffer, heap) IN
            /\ data' = [data EXCEPT ![p] = b.slice]
            /\ heap' = b.heap
            /\ UNCHANGED <<bufferMaxSize, buffer, totalBufSize, bufCount, hist>>
    /\ Go(p, data'[p], heap', "Export", doReset[p], FALSE)
    /\ UNCHANGED <<mux, args, ret, tick, calls, cid, pre, quiet, lockOrder,
                   wroteSinceTick>>

\* ExportUnlock when Export runs e.export(data) itself (no go statement): the
\* deferred Unlock runs once the export callback has returned.
ExportUnlock_Sync(p) ==
    /\ pc[p] = "Export_unlock"
    /\ exporters = 0
    /\ Unlock(p, "idle")
    /\ ret' = [ret EXCEPT ![p] = [NoReturn EXCEPT !.op = "Export"]]

\* the deferred e.mux.Unlock()
ExportUnlock(p) ==
    /\ pc[p] = "Export_unlock"
    /\ Unlock(p, "idle")
    /\ ret' = [ret EXCEPT ![p] = [NoReturn EXCEPT !.op = "Export"]]

\* ---------------------------------------------------------------- Bytes
BytesCall(p) ==
    /\ StartCall(p, "Bytes_lock")
    /\ UNCHANGED args

\* e.bytes()
BytesBody(p) ==
    /\ pc[p] = "Bytes_body"
    /\ pc' = [pc EXCEPT ![p] = "Bytes_unlock"]
    /\ LET b == bytes(buffer, heap) IN
       /\ data' = [data EXCEPT ![p] = b.slice]
       /\ heap' = b.heap
    /\ UNCHANGED <<bufferMaxSize, buffer, totalBufSize, bufCount, mux, args,
                   ret, tick, exports, exporters, calls, cid, pre, quiet,
                   lockOrder, wroteSinceTick, hist>>

\* return of the copy and the deferred e.mux.Unlock()
BytesUnlock(p) ==
    /\ pc[p] = "Bytes_unlock"
    /\ Unlock(p, "idle")
    /\ ret' = [ret EXCEPT ![p] = [NoReturn EXCEPT !.op = "Bytes",
                                                  !.val = data[p]]]

\* ---------------------------------------------------------------- Reset
ResetCall(p) ==
    /\ StartCall(p, "Reset_lock")
    /\ UNCHANGED args

\* e.reset()
ResetBody(p) ==
    /\ pc[p] = "Reset_body"
    /\ pc' = [pc EXCEPT ![p] = "Reset_unlock"]
    /\ LET r == reset(buffer, heap, totalBufSize, bufCount, bufferMaxSize) IN
       /\ buffer' = r.buffer
       /\ heap' = r.heap
       /\ totalBufSize' = r.totalBufSize
       /\ bufCount' = r.bufCount
    /\ lastMut' = "reset"
    /\ resets' = Append(resets, ResetRecord(p))
    /\ discarded' = discarded \cup Range(BufBytes)
    /\ UNCHANGED <<bufferMaxSize, mux, args, data, ret, tick, exports,
                   exporters, calls, cid, pre, quiet, lockOrder, wroteSinceTick,
                   written, flushed>>

\* the deferred e.mux.Unlock()
ResetUnlock(p) ==
    /\ pc[p] = "Reset_unlock"
    /\ Unlock(p, "idle")
    /\ ret' = [ret EXCEPT ![p] = [NoReturn EXCEPT !.op = "Reset"]]

\* ------------------------------------------------------- IntervalExport
\* BadInterval with < for <=.
BadInterval_Negative(i) == i < 0

\* if exportInterval <= 0
BadInterval(i) == i <= 0

\* IntervalExport(i): the error, or a new goroutine t with its ticker,
\* and the cancel function of its context.
IntervalExport(p, i) ==
    /\ CanCall(p)
    /\ calls' = calls + 1
    /\ cid' = [cid EXCEPT ![p] = calls + 1]
    /\ exportInterval' = [exportInterval EXCEPT ![p] = i]
    /\ IF BadInterval(i)
       THEN /\ ret' = [ret EXCEPT ![p] =
                        [NoReturn EXCEPT !.op = "IntervalExport",
                                         !.err = "ErrNegativeOrZeroInterval"]]
            /\ pc' = pc
       ELSE \E t \in Tasks :
              /\ pc[t] = "off"
              /\ \A u \in Tasks : u < t => pc[u] # "off"
              /\ pc' = [pc EXCEPT ![t] = "select"]
              /\ ret' = [ret EXCEPT ![p] =
                          [NoReturn EXCEPT !.op = "IntervalExport", !.handle = t]]
    /\ UNCHANGED <<sink, mux, ctor, wdata, doReset, data, tick, exports,
                   exporters, pre, quiet, lockOrder, wroteSinceTick, hist>>

\* The tasks started so far.
StartedTasks == {t \in Tasks : pc[t] # "off"}

\* IntervalExport(i) while fewer than MaxTasks tasks have been started, or with
\* an exportInterval that starts none.
IntervalExportCall(p, i) ==
    /\ BadInterval(i) \/ Cardinality(StartedTasks) < MaxTasks
    /\ IntervalExport(p, i)

\* Cancel when all tasks share one context: the cancel function cancels
\* every task.
Cancel_Shared(p, t) ==
    /\ CanCall(p)
    /\ pc[t] # "off"
    /\ calls' = calls + 1
    /\ cid' = [cid EXCEPT ![p] = calls + 1]
    /\ cancelled' = [u \in Tasks |-> TRUE]
    /\ ret' = [ret EXCEPT ![p] = [NoReturn EXCEPT !.op = "cancel", !.handle = t]]
    /\ UNCHANGED <<sink, mux, pc, args, data, tickPending, ticks, exports,
                   exporters, pre, quiet, lockOrder, wroteSinceTick, hist>>

\* A caller invokes the cancel function IntervalExport returned for task t.
Cancel(p, t) ==
    /\ CanCall(p)
    /\ pc[t] # "off"
    /\ calls' = calls + 1
    /\ cid' = [cid EXCEPT ![p] = calls + 1]
    /\ cancelled' = [cancelled EXCEPT ![t] = TRUE]
    /\ ret' = [ret EXCEPT ![p] = [NoReturn EXCEPT !.op = "cancel", !.handle = t]]
    /\ UNCHANGED <<sink, mux, pc, args, data, tickPending, ticks, exports,
                   exporters, pre, quiet, lockOrder, wroteSinceTick, hist>>

\* The ticker of task t fires: a tick is put in t.C, which holds one tick
\* (a tick that finds the channel full is dropped).
TickerFire(t) ==
    /\ pc[t] \notin {"off", "done"}
    /\ ticks[t] < MaxTicks
    /\ ~tickPending[t]
    /\ tickPending' = [tickPending EXCEPT ![t] = TRUE]
    /\ ticks' = [ticks EXCEPT ![t] = ticks[t] + 1]
    /\ UNCHANGED <<sink, mux, pc, args, data, ret, cancelled, exports,
                   exporters, calls, cid, pre, quiet, lockOrder, wroteSinceTick,
                   hist>>

\* select takes case <-t.C
TaskTick(t) ==
    /\ pc[t] = "select"
    /\ tickPending[t]
    /\ tickPending' = [tickPending EXCEPT ![t] = FALSE]
    /\ pc' = [pc EXCEPT ![t] = "Tick_lock"]
    /\ cid' = [cid EXCEPT ![t] = 100 * t + ticks[t]]
    /\ UNCHANGED <<sink, mux, args, data, ret, cancelled, ticks, exports,
                   exporters, calls, pre, quiet, lockOrder, wroteSinceTick, hist>>

\* TaskExit without the return: the select is left and the loop goes on.
TaskExit_NoReturn(t) ==
    /\ pc[t] = "select"
    /\ cancelled[t]
    /\ UNCHANGED vars

\* TaskExit with a last flush of the buffer before the return.
TaskExit_Flush(t) ==
    /\ pc[t] = "select"
    /\ cancelled[t]
    /\ pc' = [pc EXCEPT ![t] = "done"]
    /\ CopyAndReset(t)
    /\ Go(t, data'[t], heap', "tick", TRUE, FALSE)
    /\ UNCHANGED <<mux, args, ret, tick, calls, cid, pre, quiet, lockOrder,
                   wroteSinceTick>>

\* select takes case <-ctx.Done(): t.Stop() and return
TaskExit(t) ==
    /\ pc[t] = "select"
    /\ cancelled[t]
    /\ pc' = [pc EXCEPT ![t] = "done"]
    /\ UNCHANGED <<sink, mux, args, data, ret, tick, exports, exporters, calls,
                   cid, pre, quiet, lockOrder, wroteSinceTick, hist>>

\* data := e.bytes(); e.reset()
TickBody(t) ==
    /\ pc[t] = "Tick_body"
    /\ pc' = [pc EXCEPT ![t] = "Tick_unlock"]
    /\ CopyAndReset(t)
    /\ quiet' = [quiet EXCEPT ![t] = ~wroteSinceTick]
    /\ wroteSinceTick' = FALSE
    /\ UNCHANGED <<mux, args, ret, tick, exports, exporters, calls, cid, pre,
                   lockOrder>>

\* TickUnlock as a defer e.mux.Unlock(), which does not run inside the loop.
TickUnlock_Deferred(t) ==
    /\ pc[t] = "Tick_unlock"
    /\ pc' = [pc EXCEPT ![t] = "Tick_go"]
    /\ UNCHANGED <<sink, mux, args, data, ret, tick, exports, exporters, calls,
                   cid, pre, quiet, lockOrder, wroteSinceTick, hist>>

\* e.mux.Unlock()
TickUnlock(t) ==
    /\ pc[t] = "Tick_unlock"
    /\ Unlock(t, "Tick_go")
    /\ ret' = ret

\* go e.export(data)
TickGo(t) ==
    /\ pc[t] = "Tick_go"
    /\ pc' = [pc EXCEPT ![t] = "select"]
    /\ Go(t, data[t], heap, "tick", TRUE, quiet[t])
    /\ UNCHANGED <<sink, mux, args, data, ret, tick, calls, cid, pre, quiet,
                   lockOrder, wroteSinceTick, hist>>

\* ---------------------------------------------------- the export callback
\* One export goroutine returns.
ExportReturn ==
    /\ exporters > 0
    /\ exporters' = exporters - 1
    /\ UNCHANGED <<sink, mux, pc, args, data, ret, tick, exports, calls, cid,
                   pre, quiet, lockOrder, wroteSinceTick, hist>>

\* ----------------------------------------------------------------- Next
\* The steps of the goroutines inside their calls and ticks.
Steps ==
    \/ \E th \in Threads : Lock(th)
    \/ \E p \in Procs : WriteCheck(p)
    \/ \E p \in Procs : WriteAppend(p)
    \/ \E p \in Procs : WriteUnlock(p)
    \/ \E p \in Procs : ExportBody(p)
    \/ \E p \in Procs : ExportUnlock(p)
    \/ \E p \in Procs : BytesBody(p)
    \/ \E p \in Procs : BytesUnlock(p)
    \/ \E p \in Procs : ResetBody(p)
    \/ \E p \in Procs : ResetUnlock(p)
    \/ \E t \in Tasks : TickerFire(t)
    \/ \E t \in Tasks : TaskTick(t)
    \/ \E t \in Tasks : TaskExit(t)
    \/ \E t \in Tasks : TickBody(t)
    \/ \E t \in Tasks : TickUnlock(t)
    \/ \E t \in Tasks : TickGo(t)

Next ==
    \/ \E p \in Procs, n \in 0..MaxDataLen : WriteCall(p, n)
    \/ \E p \in Procs, r \in BOOLEAN : ExportCall(p, r)
    \/ \E p \in Procs : BytesCall(p)
    \/ \E p \in Procs : ResetCall(p)
    \/ \E p \in Procs, i \in Intervals : IntervalExportCall(p, i)
    \/ \E p \in Procs, t \in Tasks : Cancel(p, t)
    \/ Steps
    \/ ExportReturn

Spec == Init /\ [][Next]_vars

\* ------------------------------------------------------------- fairness
\* The steps of caller p inside a call, once it has the lock.
Run(p) ==
    \/ WriteCheck(p) \/ WriteAppend(p) \/ WriteUnlock(p)
    \/ ExportBody(p) \/ ExportUnlock(p)
    \/ BytesBody(p) \/ BytesUnlock(p)
    \/ ResetBody(p) \/ ResetUnlock(p)

\* The steps of a tick of task t, once it has the lock.
RunTick(t) == TickBody(t) \/ TickUnlock(t) \/ TickGo(t)

\* Goroutines that can run do run; a goroutine waiting in Lock() gets the
\* mutex (sync.Mutex hands it to a waiter that starves); a running ticker
\* fires; a select whose cancellation case is ready again and again takes it.
\* Callers need not call, and export goroutines need not return.
FairnessOf(ts) ==
    /\ \A th \in Procs \cup ts : SF_vars(Lock(th))
    /\ \A p \in Procs : WF_vars(Run(p))
    /\ \A t \in ts :
         /\ WF_vars(TickerFire(t))
         /\ WF_vars(TaskTick(t))
         /\ SF_vars(TaskExit(t))
         /\ WF_vars(RunTick(t))

\* The task the first successful IntervalExport starts.
FirstTask == NumProcs + 1

\* The tasks started in FairSpec.
FairTasks == {FirstTask}

\* Fair scheduling of the callers and of the task started in FairSpec.
Fairness == FairnessOf(FairTasks)

\* The states in which caller 1 has just started the first task, by a call
\* IntervalExport(1) on a new Evexi.
Started ==
    /\ \E max \in {0, FixedCap} :
         LET r == New("func", max) IN
         /\ export = r.export
         /\ e = r.e
         /\ err = r.err
         /\ bufferMaxSize = r.bufferMaxSize
         /\ buffer = r.buffer
         /\ heap = r.heap
         /\ totalBufSize = r.totalBufSize
         /\ bufCount = r.bufCount
    /\ mux = 0
    /\ pc = [th \in Threads |->
               IF th \in Procs THEN "idle"
               ELSE IF th = NumProcs + 1 THEN "select" ELSE "off"]
    /\ wdata = [p \in Procs |-> <<>>]
    /\ doReset = [p \in Procs |-> FALSE]
    /\ exportInterval = [p \in Procs |-> 1]
    /\ data = [th \in Threads |-> NilSlice]
    /\ ret = [p \in Procs |->
                IF p = 1
                THEN [NoReturn EXCEPT !.op = "IntervalExport", !.handle = NumProcs + 1]
                ELSE NoReturn]
    /\ cancelled = [t \in Tasks |-> FALSE]
    /\ tickPending = [t \in Tasks |-> FALSE]
    /\ ticks = [t \in Tasks |-> 0]
    /\ exports = <<>>
    /\ exporters = 0
    /\ calls = 1
    /\ cid = [th \in Threads |-> IF th = 1 THEN 1 ELSE 0]
    /\ pre = [th \in Threads |-> <<>>]
    /\ quiet = [t \in Tasks |-> FALSE]
    /\ lockOrder = <<>>
    /\ wroteSinceTick = TRUE
    /\ written = <<>>
    /\ flushed = <<>>
    /\ lastMut = "none"
    /\ resets = <<>>
    /\ discarded = {}

\* The calls made once the task is started: Writes of one byte or of the
\* longest data, Export, Bytes, Reset and the task's cancel function. No
\* export goroutine returns.
LiveNext ==
    \/ \E p \in Procs, n \in {1, MaxDataLen} : WriteCall(p, n)
    \/ \E p \in Procs, r \in BOOLEAN : ExportCall(p, r)
    \/ \E p \in Procs : BytesCall(p)
    \/ \E p \in Procs : ResetCall(p)
    \/ \E p \in Procs, t \in Tasks : Cancel(p, t)
    \/ Steps

\* The behaviours with a task started, under fair scheduling.
FairSpec == Started /\ [][LiveNext]_vars /\ Fairness

\* ------------------------------------------------------- construction
\* The values of bufferMaxSize passed to New: negative, zero, positive.
NewSizes == (0 - 1)..FixedCap

\* The states before New(export, bufferMaxSize) is called: its parameters are
\* chosen, there is no Evexi yet and no goroutine uses one.
NewInit ==
    /\ export \in {"nil", "func"}
    /\ bufferMaxSize \in NewSizes
    /\ e = "unset"
    /\ err = "unset"
    /\ buffer = NilSlice
    /\ heap = <<>>
    /\ totalBufSize = 0
    /\ bufCount = 0
    /\ mux = 0
    /\ pc = [th \in Threads |-> IF th \in Procs THEN "idle" ELSE "off"]
    /\ wdata = [p \in Procs |-> <<>>]
    /\ doReset = [p \in Procs |-> FALSE]
    /\ exportInterval = [p \in Procs |-> 1]
    /\ data = [th \in Threads |-> NilSlice]
    /\ ret = [p \in Procs |-> NoReturn]
    /\ cancelled = [t \in Tasks |-> FALSE]
    /\ tickPending = [t \in Tasks |-> FALSE]
    /\ ticks = [t \in Tasks |-> 0]
    /\ exports = <<>>
    /\ exporters = 0
    /\ calls = 0
    /\ cid = [th \in Threads |-> 0]
    /\ pre = [th \in Threads |-> <<>>]
    /\ quiet = [t \in Tasks |-> FALSE]
    /\ lockOrder = <<>>
    /\ wroteSinceTick = TRUE
    /\ written = <<>>
    /\ flushed = <<>>
    /\ lastMut = "none"
    /\ resets = <<>>
    /\ discarded = {}

\* New(export, bufferMaxSize) returns.
NewCall ==
    /\ e = "unset"
    /\ LET r == New(export, bufferMaxSize) IN
       /\ e' = r.e
       /\ err' = r.err
       /\ IF r.e = "nil"
          THEN UNCHANGED <<export, sink>>
          ELSE /\ export' = r.export
               /\ bufferMaxSize' = r.bufferMaxSize
               /\ buffer' = r.buffer
               /\ heap' = r.heap
               /\ totalBufSize' = r.totalBufSize
               /\ bufCount' = r.bufCount
    /\ UNCHANGED <<mux, pc, wdata, doReset, exportInterval, data, ret, tick,
                   exports, exporters, calls, cid, pre, quiet, lockOrder,
                   wroteSinceTick, hist>>

\* New, and then Write, Bytes and Reset calls on the Evexi it returned.
NewNext ==
    \/ NewCall
    \/ \E p \in Procs, n \in 0..MaxDataLen : WriteCall(p, n)
    \/ \E p \in Procs : BytesCall(p)
    \/ \E p \in Procs : ResetCall(p)
    \/ \E p \in Procs : Lock(p)
    \/ \E p \in Procs : WriteCheck(p)
    \/ \E p \in Procs : WriteAppend(p)
    \/ \E p \in Procs : WriteUnlock(p)
    \/ \E p \in Procs : BytesBody(p)
    \/ \E p \in Procs : BytesUnlock(p)
    \/ \E p \in Procs : ResetBody(p)
    \/ \E p \in Procs : ResetUnlock(p)

NewSpec == NewInit /\ [][NewNext]_vars

\* ------------------------------------------------- one caller, in sequence
\* Number of resets one caller makes in sequence.
MaxResets == 4

\* The lengths of the data one caller writes between two resets.
ResetLens == {0, 10, 25, 31}

\* A new Evexi with bufferMaxSize not set.
ResetInit == Init /\ bufferMaxSize = 0

\* No goroutine is inside a call or a tick.
Sequential == mux = 0 /\ \A th \in Threads : pc[th] \in {"idle", "off", "done"}

\* Write(data) with n bytes, run to its return by caller 1 while no other
\* goroutine uses the Evexi, bufferMaxSize not being set: the append.
SeqWrite(n) ==
    /\ Sequential
    /\ bufferMaxSize <= 0
    /\ lastMut # "append"
    /\ Len(resets) < MaxResets
    /\ LET d == Payload(Len(resets) + 1, n)
           a == AppendSlice(buffer, d, heap)
       IN  /\ buffer' = a.slice
           /\ heap' = a.heap
           /\ written' = written \o d
           /\ wdata' = [wdata EXCEPT ![1] = d]
           /\ pre' = [pre EXCEPT ![1] = BufBytes]
           /\ ret' = [ret EXCEPT ![1] = [NoReturn EXCEPT !.op = "Write", !.n = n]]
    /\ lastMut' = "append"
    /\ wroteSinceTick' = TRUE
    /\ lockOrder' = Append(lockOrder, "Write_lock")
    /\ UNCHANGED <<bufferMaxSize, totalBufSize, bufCount, mux, pc, ctor, doReset,
                   exportInterval, data, tick, exports, exporters, calls, cid,
                   quiet, flushed, resets, discarded>>

\* Reset(), run to its return by caller 1 while no other goroutine uses the
\* Evexi.
SeqReset ==
    /\ Sequential
    /\ Len(resets) < MaxResets
    /\ LET r == reset(buffer, heap, totalBufSize, bufCount, bufferMaxSize) IN
       /\ buffer' = r.buffer
       /\ heap' = r.heap
       /\ totalBufSize' = r.totalBufSize
       /\ bufCount' = r.bufCount
    /\ lastMut' = "reset"
    /\ resets' = Append(resets, ResetRecord(1))
    /\ discarded' = discarded \cup Range(BufBytes)
    /\ pre' = [pre EXCEPT ![1] = BufBytes]
    /\ ret' = [ret EXCEPT ![1] = [NoReturn EXCEPT !.op = "Reset"]]
    /\ lockOrder' = Append(lockOrder, "Reset_lock")
    /\ UNCHANGED <<bufferMaxSize, mux, pc, args, data, tick, exports, exporters,
                   calls, cid, quiet, wroteSinceTick, written, flushed>>

ResetNext ==
    \/ \E n \in ResetLens : SeqWrite(n)
    \/ SeqReset

\* One caller that writes and resets in turn, in adaptive mode.
ResetSpec == ResetInit /\ [][ResetNext]_vars

\* ------------------------------------------------------------ two tasks
\* The calls that start tasks and cancel them, and Writes of one byte by
\* caller 1.
TwoTaskNext ==
    \/ \E p \in Procs : IntervalExport(p, 1)
    \/ \E p \in Procs, t \in Tasks : Cancel(p, t)
    \/ WriteCall(1, 1)
    \/ \E th \in Threads : Lock(th)
    \/ \E p \in Procs : WriteCheck(p)
    \/ \E p \in Procs : WriteAppend(p)
    \/ \E p \in Procs : WriteUnlock(p)
    \/ \E t \in Tasks : TickerFire(t)
    \/ \E t \in Tasks : TaskTick(t)
    \/ \E t \in Tasks : TaskExit(t)
    \/ \E t \in Tasks : TickBody(t)
    \/ \E t \in Tasks : TickUnlock(t)
    \/ \E t \in Tasks : TickGo(t)

\* A new Evexi on which up to NumTasks tasks are started, under fair
\* scheduling.
TwoTaskSpec == Init /\ [][TwoTaskNext]_vars /\ FairnessOf(Tasks)

\* =============================================================== claims
\* The operations that have taken the lock are all among ops.
OnlyLocked(ops) == \A i \in 1..Len(lockOrder) : lockOrder[i] \in ops

\* C1: right after any reset (Reset(), Export(true), a tick, the reset of
\* Write's implicit flush), in both modes, the buffer is empty, and a
\* Bytes() that copies it then returns a zero-length sequence.
C1_EmptyAfterReset ==
    /\ lastMut = "reset" => buffer.len = 0
    /\ \A p \in Procs :
         (pc[p] = "Bytes_unlock" /\ lastMut = "reset") => data[p].len = 0

\* C2: with Writes and resetting flushes only (no Reset() call), in both
\* modes, the copies taken by the resetting flushes, in lock order, followed
\* by the buffer's bytes, are exactly the data written, in lock order.
C2_NoByteLostOrInvented ==
    OnlyLocked(LockPcs \ {"Reset_lock"}) => flushed \o BufBytes = written

\* A Write of thread p that found len(buffer)+len(data) > bufferMaxSize when
\* it took the lock, in fixed-capacity mode, and is about to unlock.
Overflowed(p) ==
    /\ pc[p] = "Write_unlock"
    /\ bufferMaxSize > 0
    /\ Len(pre[p]) + Len(wdata[p]) > bufferMaxSize

\* C3: in fixed-capacity mode a Write that overflows starts exactly one export
\* goroutine, with the buffer's prior bytes, and leaves exactly its data in
\* the buffer when it unlocks.
C3_OverflowFlush ==
    \A p \in Procs :
      Overflowed(p) =>
        /\ BufBytes = wdata[p]
        /\ Cardinality(ExportsOf(cid[p])) = 1
        /\ \A i \in ExportsOf(cid[p]) :
             exports[i].data = pre[p] /\ exports[i].origin = "Write"

\* The scenario of C3 at the model's scale: two Writes that each fit the
\* capacity and together exceed it; the second one is about to unlock.
C3_Witness ==
    \E p \in Procs :
      /\ Overflowed(p)
      /\ Len(pre[p]) = 2 /\ Len(wdata[p]) = 2
      /\ Len(exports) = 1

\* The length of the data of the Write that holds the lock and has not
\* appended it yet (0 when there is none).
PendingLen ==
    IF \E p \in Procs : pc[p] \in {"Write_check", "Write_append"}
    THEN Len(wdata[CHOOSE p \in Procs : pc[p] \in {"Write_check", "Write_append"}])
    ELSE 0

\* Only Writes and Bytes have taken the lock, and in fixed-capacity mode the
\* data written never exceeded the capacity: no Write met an overflow.
OnlyWritesNoOverflow ==
    /\ OnlyLocked({"Write_lock", "Bytes_lock"})
    /\ bufferMaxSize > 0 => Len(written) + PendingLen <= bufferMaxSize

\* C4: on a new Evexi, while only Writes (and Bytes) have taken the lock and
\* none of them met an overflow, the buffer holds the concatenation of the data
\* written, Bytes() returns it, every Write returns len(data) and nil, and no
\* export goroutine has been started.
C4_WritesConcatenate ==
    OnlyWritesNoOverflow =>
      /\ BufBytes = written
      /\ exports = <<>>
      /\ resets = <<>>
      /\ \A p \in Procs :
           /\ pc[p] = "Bytes_unlock" => Contents(data[p], heap) = written
           /\ ret[p].op = "Bytes" => Contents(ret[p].val, heap) \in
                {SubSeq(written, 1, n) : n \in 0..Len(written)}
           /\ ret[p].op = "Write" => ret[p].n = Len(wdata[p]) /\ ret[p].err = "nil"

\* Two Writes were appended without overflow and a Bytes() copied both.
C4_Witness ==
    /\ OnlyWritesNoOverflow
    /\ \E p \in Procs :
         /\ pc[p] = "Bytes_unlock"
         /\ Len(Contents(data[p], heap)) >= 3
         /\ \E k1, k2 \in 1..MaxCalls :
              /\ k1 # k2
              /\ Contents(data[p], heap) \in
                   {Payload(k1, n1) \o Payload(k2, n2) : n1, n2 \in 1..MaxDataLen}

C7_QuietTickEmpty ==
    \A i \in 1..Len(exports) :
      (exports[i].origin = "tick" /\ exports[i].quiet) => exports[i].data = <<>>

\* C9: the step in which a task takes the cancellation and returns, and the
\* step that invokes the cancel function, change neither the buffer nor the
\* bookkeeping and start no export goroutine.
C9_CancelNoFlush ==
    [][\A t \in Tasks :
         ((pc[t] = "select" /\ pc'[t] = "done") \/ (~cancelled[t] /\ cancelled'[t]))
           => UNCHANGED <<sink, exports, exporters, hist>>]_vars

\* A task has returned and bytes written after its last tick are in the buffer.
C9_Witness ==
    \E t \in Tasks :
      /\ pc[t] = "done"
      /\ wroteSinceTick
      /\ \E i \in 1..Len(exports) : exports[i].by = t
      /\ buffer.len > 0

\* C10: IntervalExport with exportInterval <= 0 returns
\* ErrNegativeOrZeroInterval and no cancel function, starts no task and no
\* export goroutine and changes nothing of the Evexi.
C10_InvalidInterval ==
    [][\A p \in Procs :
         (calls' = calls + 1 /\ cid'[p] = calls' /\ ret'[p].op = "IntervalExport"
            /\ exportInterval'[p] <= 0)
           => /\ ret'[p].err = "ErrNegativeOrZeroInterval"
              /\ ret'[p].handle = 0
              /\ UNCHANGED <<sink, mux, pc, wdata, doReset, data, tick, exports,
                             exporters, pre, quiet, lockOrder, wroteSinceTick,
                             hist>>]_vars

\* A call with exportInterval 0 failed, and a later call of the same caller
\* with a positive exportInterval started a task that flushed written data.
C10_Witness ==
    \E p, q \in Procs :
      /\ p # q
      /\ ret[p].err = "ErrNegativeOrZeroInterval" /\ exportInterval[p] = 0
      /\ ret[q].handle # 0 /\ ret[q].op = "IntervalExport" /\ cid[q] > cid[p]
      /\ \E i \in 1..Len(exports) :
           exports[i].origin = "tick" /\ exports[i].data # <<>>

\* The bytes handed to the export callback so far.
Delivered == UNION {Range(exports[i].data) : i \in 1..Len(exports)}

\* The bytes the k-th call, a Write, has appended.
WrittenBy(k) == PayloadBytes(k) \cap Range(written)

\* Bytes of the k-th call are in the buffer.
Buffered(k) == PayloadBytes(k) \cap Range(BufBytes) # {}

\* Task t is running, is not cancelled, and its ticker has ticks left to fire.
Ticking(t) == pc[t] \notin {"off", "done"} /\ ~cancelled[t] /\ ticks[t] < MaxTicks

\* The bytes of the copies that ticks have taken and not yet handed over.
Held ==
    UNION {Range(Contents(data[t], heap)) :
             t \in {u \in Tasks : pc[u] \in {"Tick_unlock", "Tick_go"}}}

\* C6 as stated, in the form a finite run refutes: while a task is running
\* and not cancelled, every byte written is on its way to the export callback:
\* it is in the buffer, in a copy a tick is about to hand over, or in a copy
\* handed over. (A byte that is in none of them is never exported.)
C6_WrittenBytesExported ==
    \A t \in Tasks, k \in 1..MaxCalls :
      (pc[t] \notin {"off", "done"} /\ ~cancelled[t])
        => WrittenBy(k) \subseteq (Range(BufBytes) \cup Held \cup Delivered)

\* The same with the bytes Reset() removed: this one holds.
C6_WrittenBytesAccounted ==
    \A k \in 1..MaxCalls :
      WrittenBy(k) \subseteq (Range(BufBytes) \cup Held \cup Delivered \cup discarded)

\* C6 as stated, as a temporal formula: while a task is running and not
\* cancelled, every byte in the buffer is eventually in a copy handed to the
\* export callback.
C6_EventuallyExported ==
    \A t \in FairTasks, k \in 1..MaxCalls :
      (Ticking(t) /\ Buffered(k))
        ~> (cancelled[t] \/ WrittenBy(k) \subseteq Delivered)

\* C6 as amended: while a task is running and not cancelled, every byte in
\* the buffer is eventually in a copy handed to the export callback, or has
\* been removed from the buffer by a Reset() call.
C6_EventuallyExportedOrReset ==
    \A t \in FairTasks, k \in 1..MaxCalls :
      (Ticking(t) /\ Buffered(k))
        ~> (cancelled[t] \/ WrittenBy(k) \subseteq (Delivered \cup discarded))

\* The resets made by ticks of task t that copied the buffer after the cancel
\* function of t was invoked.
LateTicks(t) == {i \in 1..Len(resets) : resets[i].by = t /\ resets[i].late}

\* The resets and the export goroutines of task t.
FlushesOf(t) ==
    <<{i \in 1..Len(resets) : resets[i].by = t},
      {i \in 1..Len(exports) : exports[i].by = t}>>

\* C8 as stated: after the cancel function is invoked the task performs at
\* most one more tick flush.
C8_AtMostOneLateTick ==
    \A t \in Tasks : Cardinality(LateTicks(t)) <= 1

\* C8 as amended: once the cancel function is invoked the task eventually
\* returns; until its select takes the cancellation it may still flush the
\* ticks it receives; once it has returned it never flushes and its ticker
\* never fires; invoking the cancel function again changes nothing and
\* returns no error.
C8_CancelStops ==
    /\ \A t \in FairTasks : cancelled[t] ~> (pc[t] = "done")
    /\ [][\A t \in Tasks :
            pc[t] = "done" =>
              /\ pc'[t] = "done"
              /\ ticks'[t] = ticks[t]
              /\ FlushesOf(t)' = FlushesOf(t)]_vars
    /\ [][\A t \in Tasks, p \in Procs :
            (cancelled[t] /\ calls' = calls + 1 /\ cid'[p] = calls'
               /\ ret'[p].op = "cancel" /\ ret'[p].handle = t)
              => /\ ret'[p].err = "nil"
                 /\ UNCHANGED <<sink, mux, pc, args, data, tick, exports,
                                exporters, pre, quiet, lockOrder,
                                wroteSinceTick, hist>>]_vars

\* The cancel function was invoked twice, the task flushed a tick after the
\* first invocation and has returned.
C8_Witness ==
    \E t \in Tasks :
      /\ pc[t] = "done"
      /\ LateTicks(t) # {}
      /\ \A p \in Procs : ret[p].op = "cancel" /\ ret[p].handle = t

\* A tick of a running task handed written bytes to the export callback.
C6_Witness ==
    \E i \in 1..Len(exports), k \in 1..MaxCalls :
      /\ exports[i].origin = "tick"
      /\ ~cancelled[exports[i].by]
      /\ WrittenBy(k) # {}
      /\ WrittenBy(k) \subseteq Range(exports[i].data)

\* The Evexi New has just returned: no call has been made on it.
JustBuilt == e = "Evexi" /\ calls = 0

\* C11: New with a nil export returns ErrExportFuncNotSet and no Evexi, for
\* every bufferMaxSize; New with an export set returns no error and an Evexi
\* whose buffer is empty (with capacity bufferMaxSize when that is positive,
\* none otherwise), whose totalBufSize and bufCount are 0 and whose
\* bufferMaxSize is the one passed; the Evexi is in fixed-capacity mode
\* exactly when bufferMaxSize > 0: its resets leave the bookkeeping at 0 then
\* and count otherwise, and only then a Write flushes.
C11_New ==
    /\ [](e # "unset" =>
            /\ export = "nil" =>
                 /\ e = "nil" /\ err = "ErrExportFuncNotSet"
                 /\ buffer = NilSlice /\ heap = <<>> /\ calls = 0
            /\ export # "nil" => e = "Evexi" /\ err = "nil")
    /\ [](JustBuilt =>
            /\ buffer.len = 0 /\ BufBytes = <<>>
            /\ buffer.cap = (IF bufferMaxSize > 0 THEN bufferMaxSize ELSE 0)
            /\ totalBufSize = 0 /\ bufCount = 0)
    /\ [](resets # <<>> => (bufCount = 0 <=> bufferMaxSize > 0))
    /\ [](exports # <<>> => bufferMaxSize > 0)
    /\ [][bufferMaxSize' = bufferMaxSize /\ export' = export]_vars

\* New was passed a negative bufferMaxSize and an export, and a reset of the
\* Evexi it returned has counted a buffer.
C11_Witness ==
    /\ e = "Evexi" /\ err = "nil" /\ export = "func"
    /\ bufferMaxSize < 0
    /\ bufCount > 0 /\ totalBufSize > 0

\* The buffer lengths at the resets made so far.
ResetLengths == [i \in 1..Len(resets) |-> resets[i].len]

\* The last change of the buffer was a reset that gave it a new backing array.
FreshBuffer ==
    lastMut = "reset" /\ resets # <<>> /\ buffer.arr # resets[Len(resets)].arr

\* The last change of the buffer was a reset that truncated it in place.
ReusedBuffer ==
    /\ lastMut = "reset" /\ resets # <<>>
    /\ buffer.arr = resets[Len(resets)].arr
    /\ buffer.len = 0

\* C12 as stated: in adaptive mode, after resets with buffer lengths 10, 10,
\* 10 and 25 the buffer is a newly allocated one.
C12_FreshAfterSpike ==
    (bufferMaxSize = 0 /\ lastMut = "reset" /\ ResetLengths = <<10, 10, 10, 25>>)
      => FreshBuffer

\* C12 as amended: in adaptive mode the average includes the buffer being
\* reset, so after resets with buffer lengths 10, 10, 10 and 25 (average
\* 55/4 = 13, 25 <= 26) the buffer is truncated and reused; after resets with
\* lengths 10, 10, 10 and 31 (average 61/4 = 15, 31 > 30) it is a newly
\* allocated one.
C12_SpikeAgainstNewAverage ==
    (bufferMaxSize = 0 /\ lastMut = "reset") =>
      /\ ResetLengths = <<10, 10, 10, 25>> =>
           ReusedBuffer /\ totalBufSize = 55 /\ bufCount = 4
      /\ ResetLengths = <<10, 10, 10, 31>> =>
           FreshBuffer /\ totalBufSize = 61 /\ bufCount = 4

\* The fourth reset, with a buffer of 25 bytes after three of 10, is done.
C12_Witness ==
    /\ bufferMaxSize = 0
    /\ lastMut = "reset"
    /\ ResetLengths = <<10, 10, 10, 25>>
    /\ written # <<>>

\* The export goroutine started last, in the state after a step.
LastExport == exports[Len(exports)]

\* C13: every copy handed to the export callback and every copy Bytes()
\* returned is in a backing array other than the buffer's and holds the bytes
\* it was made with, whatever Write, Reset, Export or tick came after it; the
\* copy handed over is the buffer's bytes as they were when the flush took
\* the lock, before its reset, and Bytes() returns the buffer's bytes as they
\* were when it took the lock.
C13_PrivateSnapshots ==
    /\ [](\A i \in 1..Len(exports) :
            /\ exports[i].slice.arr # buffer.arr
            /\ Contents(exports[i].slice, heap) = exports[i].data)
    /\ [](\A p \in Procs :
            ret[p].op = "Bytes" =>
              /\ ret[p].val.arr # buffer.arr
              /\ Contents(ret[p].val, heap) = pre[p])
    /\ [][Len(exports') > Len(exports) => LastExport'.data = pre[LastExport'.by]]_vars

\* A flush handed over a copy of a non-empty buffer, its reset truncated the
\* buffer in place, and a later Write has put other bytes in the same array.
C13_Witness ==
    \E i \in 1..Len(exports), j \in 1..Len(resets) :
      /\ exports[i].data # <<>>
      /\ resets[j].by = exports[i].by
      /\ resets[j].len = Len(exports[i].data)
      /\ resets[j].arr = buffer.arr
      /\ lastMut = "append"
      /\ buffer.len > 0
      /\ Range(BufBytes) \cap Range(exports[i].data) = {}

\* C14: with export goroutines that never return, under fair scheduling,
\* every Write, Export, Bytes and Reset call that waits for the lock gets it,
\* finishes and releases it; every tick a task has taken is flushed and its
\* export goroutine started; and a tick waiting in a task's ticker channel is
\* taken unless the task is cancelled.
C14_NeverStalled ==
    /\ \A p \in Procs : (pc[p] \in LockPcs) ~> (pc[p] = "idle" /\ mux # p)
    /\ \A t \in FairTasks : (pc[t] = "Tick_lock") ~> (pc[t] = "select" /\ mux # t)
    /\ \A t \in FairTasks :
         (tickPending[t] /\ pc[t] \notin {"off", "done"})
           ~> (pc[t] = "Tick_lock" \/ cancelled[t])

\* With the export goroutine of an Export still running, a Write has returned
\* and a later tick has started another export goroutine.
C14_Witness ==
    \E i, j \in 1..Len(exports), p \in Procs :
      /\ i < j
      /\ exports[i].origin = "Export"
      /\ exports[j].origin = "tick"
      /\ exporters >= 2
      /\ ret[p].op = "Write" /\ cid[p] > exports[i].call
      /\ mux = 0

\* The fields of the Evexi and the bytes of its buffer.
SinkState == <<bufferMaxSize, buffer, BufBytes, totalBufSize, bufCount>>

\* C15: the body of Export starts exactly one export goroutine, with the
\* buffer's bytes (none when the buffer is empty), and with reset false it
\* leaves the buffer, its bytes, totalBufSize and bufCount as they were; an
\* Export call starts no other export goroutine; Reset() and Bytes() start
\* none; no step of Bytes() changes the buffer or the bookkeeping.
C15_ExportFrame ==
    /\ [][\A p \in Procs :
            (pc[p] = "Export_body" /\ pc'[p] # pc[p]) =>
              /\ exports' = Append(exports, LastExport')
              /\ LastExport'.data = BufBytes
              /\ LastExport'.by = p
              /\ exporters' = exporters + 1
              /\ ~doReset[p] => SinkState' = SinkState]_vars
    /\ [](\A p \in Procs :
            /\ pc[p] \in {"Export_lock", "Export_body"} => ExportsOf(cid[p]) = {}
            /\ (pc[p] = "Export_unlock" \/ ret[p].op = "Export")
                 => Cardinality(ExportsOf(cid[p])) = 1
            /\ (pc[p] \in {"Reset_lock", "Reset_body", "Reset_unlock",
                            "Bytes_lock", "Bytes_body", "Bytes_unlock"}
                 \/ ret[p].op \in {"Reset", "Bytes"})
                 => ExportsOf(cid[p]) = {})
    /\ [][\A p \in Procs :
            (pc[p] \in {"Bytes_lock", "Bytes_body", "Bytes_unlock"} /\ pc'[p] # pc[p])
              => SinkState' = SinkState]_vars

\* An Export(false) handed over the bytes of a non-empty buffer, which are
\* still in it, and an Export found the buffer empty and handed over no bytes.
C15_Witness ==
    \E i, j \in 1..Len(exports) :
      /\ exports[i].origin = "Export" /\ ~exports[i].reset
      /\ exports[i].data # <<>>
      /\ BufBytes = exports[i].data
      /\ exports[j].origin = "Export" /\ exports[j].data = <<>>
      /\ totalBufSize = 0

\* Thread th is between e.mux.Lock() and e.mux.Unlock().
InCriticalSection(th) ==
    pc[th] \in {"Write_check", "Write_append", "Write_unlock",
                "Export_body", "Export_unlock", "Bytes_body", "Bytes_unlock",
                "Reset_body", "Reset_unlock", "Tick_body", "Tick_unlock"}

\* C16: at most one Write, Export, Bytes, Reset or tick is between Lock and
\* Unlock, and it is the one that holds the mutex; every step that changes the
\* buffer, its bytes, totalBufSize or bufCount is a step of the thread that
\* holds the mutex, before and after the step.
C16_MutualExclusion ==
    /\ [](/\ Cardinality({th \in Threads : InCriticalSection(th)}) <= 1
          /\ \A th \in Threads : InCriticalSection(th) <=> mux = th)
    /\ [][SinkState' # SinkState =>
            /\ mux \in Threads
            /\ mux' = mux
            /\ pc'[mux] # pc[mux]
            /\ \A th \in Threads \ {mux} : pc'[th] = pc[th]]_vars

\* A Write holds the lock and has changed the buffer while the other caller
\* and a tick wait for the lock.
C16_Witness ==
    \E p, q \in Procs, t \in Tasks :
      /\ pc[p] = "Write_unlock" /\ wdata[p] # <<>>
      /\ pc[q] \in LockPcs
      /\ pc[t] = "Tick_lock"

\* The sum of the buffer lengths at the first n resets.
RECURSIVE SumOfResets(_)
SumOfResets(n) == IF n = 0 THEN 0 ELSE SumOfResets(n - 1) + resets[n].len

\* C17: when bufferMaxSize is not set, every e.reset() adds 1 to bufCount and
\* the buffer's length to totalBufSize, so bufCount is the number of resets
\* made and totalBufSize the sum of the buffer lengths at them, and the reset
\* keeps the backing array exactly when that length is at most twice
\* totalBufSize / bufCount (integer division, after the update); when
\* bufferMaxSize is set both stay 0.
C17_Bookkeeping ==
    /\ [](IF bufferMaxSize > 0
          THEN totalBufSize = 0 /\ bufCount = 0
          ELSE /\ bufCount = Len(resets)
               /\ totalBufSize = SumOfResets(Len(resets)))
    /\ [][(Len(resets') > Len(resets) /\ bufferMaxSize <= 0) =>
            /\ bufCount' = bufCount + 1
            /\ totalBufSize' = totalBufSize + buffer.len
            /\ (buffer'.arr = buffer.arr)
                 <=> (buffer.len <= 2 * (totalBufSize' \div bufCount'))]_vars

\* In adaptive mode a tick and a Reset() have reset the buffer, and the last
\* reset, of a buffer longer than twice the average, allocated a new one.
C17_Witness ==
    \E t \in Tasks, p \in Procs, i, j \in 1..Len(resets) :
      /\ bufferMaxSize = 0
      /\ resets[i].by = t /\ resets[j].by = p
      /\ totalBufSize > 0
      /\ FreshBuffer

\* The data of every Write made so far, appended or not yet, is no longer
\* than bufferMaxSize.
AllWritesFit ==
    /\ \A k \in 1..MaxCalls : Cardinality(WrittenBy(k)) <= bufferMaxSize
    /\ \A p \in Procs :
         pc[p] \in {"Write_lock", "Write_check", "Write_append"}
           => Len(wdata[p]) <= bufferMaxSize

\* C18: in fixed-capacity mode a Write that appended its data without a
\* flush leaves at most bufferMaxSize bytes in the buffer; and while no Write
\* has passed data longer than bufferMaxSize, the buffer never holds more than
\* bufferMaxSize bytes, whatever Write, Export, Reset and ticks interleave.
C18_WithinCapacity ==
    bufferMaxSize > 0 =>
      /\ \A p \in Procs :
           (pc[p] = "Write_unlock" /\ ExportsOf(cid[p]) = {})
             => buffer.len <= bufferMaxSize
      /\ AllWritesFit => buffer.len <= bufferMaxSize

\* In fixed-capacity mode, with Writes that each fit and together exceed the
\* capacity, a Write that met no flush has filled the buffer exactly.
C18_Witness ==
    \E p \in Procs :
      /\ bufferMaxSize > 0
      /\ AllWritesFit
      /\ Len(written) > bufferMaxSize
      /\ pc[p] = "Write_unlock" /\ ExportsOf(cid[p]) = {}
      /\ buffer.len = bufferMaxSize

\* C19: in fixed-capacity mode a reset of a buffer of at least bufferMaxSize
\* bytes leaves an empty buffer in a newly allocated array of capacity
\* bufferMaxSize, and a reset of a shorter buffer leaves the same slice
\* truncated to length 0; so after a reset the buffer's capacity is at least
\* bufferMaxSize, and a buffer whose capacity grew beyond bufferMaxSize holds
\* more than bufferMaxSize bytes until its next reset, which drops it.
C19_FixedReset ==
    /\ [][(Len(resets') > Len(resets) /\ bufferMaxSize > 0) =>
            IF buffer.len >= bufferMaxSize
            THEN /\ buffer'.arr > Len(heap)
                 /\ buffer'.len = 0
                 /\ buffer'.cap = bufferMaxSize
            ELSE buffer' = [buffer EXCEPT !.len = 0]]_vars
    /\ []((bufferMaxSize > 0 /\ resets # <<>>) => buffer.cap >= bufferMaxSize)
    /\ []((bufferMaxSize > 0 /\ buffer.cap > bufferMaxSize)
            => buffer.len > bufferMaxSize)

\* In fixed-capacity mode a reset truncated a shorter buffer in place, a Write
\* longer than the capacity made the buffer grow, and the next reset has
\* replaced it by a new buffer of capacity bufferMaxSize.
C19_Witness ==
    \E i, j \in 1..Len(resets) :
      /\ bufferMaxSize > 0
      /\ j < i /\ i = Len(resets)
      /\ resets[j].len < bufferMaxSize
      /\ resets[i].len > bufferMaxSize
      /\ FreshBuffer
      /\ buffer.cap = bufferMaxSize

\* What belongs to task t: its position, context, ticker and copy.
TaskState(t) == <<pc[t], cancelled[t], tickPending[t], ticks[t], data[t], cid[t]>>

\* The resets made and the export goroutines started by task t.
ResetsBy(t) == {i \in 1..Len(resets) : resets[i].by = t}
ExportsBy(t) == {i \in 1..Len(exports) : exports[i].by = t}

\* C20: every successful IntervalExport starts one more task and returns the
\* cancel function of that task; invoking the cancel function of a task, and
\* the return of that task, leave every other task as it is; a task that is
\* not cancelled never returns, and under fair scheduling a tick in its
\* ticker channel is taken and flushed; every tick a task takes makes one
\* reset under the lock and then starts one export goroutine, without the
\* lock, with the buffer's bytes as they were when the tick took the lock.
C20_IndependentTasks ==
    /\ [][\A p \in Procs :
            (calls' = calls + 1 /\ cid'[p] = calls' /\ ret'[p].op = "IntervalExport"
               /\ ret'[p].err = "nil")
              => /\ ret'[p].handle \in Tasks \ StartedTasks
                 /\ StartedTasks' = StartedTasks \cup {ret'[p].handle}
                 /\ \A q \in Procs \ {p} : ret[q].handle # ret'[p].handle
                 /\ \A u \in StartedTasks : TaskState(u)' = TaskState(u)]_vars
    /\ [][\A t \in Tasks :
            ((~cancelled[t] /\ cancelled'[t]) \/ (pc[t] # "done" /\ pc'[t] = "done"))
              => \A u \in Tasks \ {t} :
                   /\ TaskState(u)' = TaskState(u)
                   /\ ResetsBy(u)' = ResetsBy(u)
                   /\ ExportsBy(u)' = ExportsBy(u)]_vars
    /\ [](\A t \in Tasks : pc[t] = "done" => cancelled[t])
    /\ \A t \in Tasks :
         (tickPending[t] /\ pc[t] \notin {"off", "done"})
           ~> (cancelled[t] \/ (pc[t] = "Tick_go" /\ ExportsOf(cid[t]) = {}))
    /\ [](\A t \in Tasks :
            /\ Cardinality(ResetsBy(t)) = Cardinality(ExportsBy(t))
                 + (IF pc[t] \in {"Tick_unlock", "Tick_go"} THEN 1 ELSE 0)
            /\ (pc[t] \in {"select", "done"} /\ cid[t] # 0)
                 => Cardinality(ExportsOf(cid[t])) = 1
            /\ pc[t] \in {"Tick_lock", "Tick_body", "Tick_unlock", "Tick_go"}
                 => ExportsOf(cid[t]) = {}
            /\ \A i \in ExportsBy(t) :
                 exports[i].origin = "tick" /\ exports[i].reset /\ ~exports[i].locked)
    /\ [][\A t \in Tasks :
            (pc[t] = "Tick_body" /\ pc'[t] # pc[t])
              => mux = t /\ Len(resets') = Len(resets) + 1
                 /\ Contents(data'[t], heap') = BufBytes]_vars
    /\ [][\A t \in Tasks :
            (pc[t] = "Tick_go" /\ pc'[t] # pc[t])
              => /\ exports' = Append(exports, LastExport')
                 /\ LastExport'.by = t
                 /\ LastExport'.data = pre[t]]_vars

\* Two tasks were started; one was cancelled, flushed a last tick and has
\* returned; the other, not cancelled, has flushed a tick after that one.
C20_Witness ==
    \E t, u \in Tasks, i, j \in 1..Len(resets) :
      /\ t # u
      /\ pc[t] = "done"
      /\ pc[u] = "select" /\ ~cancelled[u]
      /\ i < j
      /\ resets[i].by = t /\ resets[i].late
      /\ resets[j].by = u
      /\ ExportsBy(t) # {}
      /\ exports[Len(exports)].by = u

====
